---- MODULE Spec2Model ----
(***************************************************************************)
(* micromath, src/f64ext.rs: the F64Ext trait and its implementation for   *)
(* f64.  Every method is `(self as f32).op(other as f32) as _`: the f64    *)
(* operands are narrowed to f32, the same-named F32Ext method is called,   *)
(* and its f32 result is widened to f64.                                   *)
(*                                                                         *)
(* Floating-point values are modelled at the bit level in two binary       *)
(* interchange formats of the IEEE-754 shape (sign, biased exponent field, *)
(* mantissa field; subnormals, infinities, NaNs), scaled down: "single"    *)
(* has SMant mantissa bits and exponent fields 0..SEmax, "double" has      *)
(* MantGap more mantissa bits and EGap more exponent codes.                *)
(***************************************************************************)
EXTENDS Integers, FiniteSets, Sequences, TLC

\* ---------------------------------------------------------------- bounds
\* Mantissa field width of the single format (f32: 23).
SMant == 1
\* Extra mantissa bits of the double format (f64: 52 - 23).
MantGap == 1
\* All-ones exponent field of the single format (f32: 255).
SEmax == 3
\* Extra exponent codes of the double format (f64: 2047 - 255).
EGap == 2
\* Number of provider behaviours the opaque F32Ext methods range over.
NumSeeds == 2
\* Number of concurrent callers in SpecConc.
NumProcs == 2

\* ---------------------------------------------------------------- formats
DMant == SMant + MantGap
DEmax == SEmax + EGap
SBias == (SEmax - 1) \div 2
DBias == (DEmax - 1) \div 2
\* log2 of (smallest single subnormal / smallest double subnormal)
SubShift == MantGap + DBias - SBias

Pow2(k) == 2 ^ k

\* A float of either format is its three bit fields.
Float(mant, emax) == [s : {0, 1}, e : 0..emax, m : 0..(Pow2(mant) - 1)]
F32 == Float(SMant, SEmax)
F64 == Float(DMant, DEmax)

IsNaN(x, emax) == x.e = emax /\ x.m # 0
IsInf(x, emax) == x.e = emax /\ x.m = 0
IsFinite(x, emax) == x.e < emax

\* Magnitude of a finite float, as a multiple of its format's smallest
\* subnormal.
Mag(x, mant) == IF x.e = 0 THEN x.m ELSE (Pow2(mant) + x.m) * Pow2(x.e - 1)

\* Magnitudes of both formats in one unit, the smallest double subnormal.
DValue(x) == Mag(x, DMant)
SValue(y) == Mag(y, SMant) * Pow2(SubShift)

\* First magnitude beyond the largest finite single: rounding to it overflows.
SOver == Pow2(SMant) * Pow2(SEmax - 1) * Pow2(SubShift)

SMags == {SValue(y) : y \in {z \in F32 : z.s = 0 /\ IsFinite(z, SEmax)}}

SInf(sign) == [s |-> sign, e |-> SEmax, m |-> 0]
DInf(sign) == [s |-> sign, e |-> DEmax, m |-> 0]
SQuiet == Pow2(SMant - 1)
DQuiet == Pow2(DMant - 1)
SNaN(sign) == [s |-> sign, e |-> SEmax, m |-> SQuiet]
DNaN(sign) == [s |-> sign, e |-> DEmax, m |-> DQuiet]

SetMax(S) == CHOOSE v \in S : \A w \in S : w <= v
SetMin(S) == CHOOSE v \in S : \A w \in S : v <= w

\* Round a non-negative exact magnitude (double units) to the single format:
\* nearest representable magnitude, ties to the even mantissa; SOver stands
\* for overflow.
RoundS(v) ==
    IF v >= SOver THEN SOver
    ELSE LET cand == SMags \cup {SOver}
             lo == SetMax({c \in cand : c <= v})
             hi == SetMin({c \in cand : c >= v})
         IN  IF lo = hi THEN v
             ELSE IF v - lo < hi - v THEN lo
             ELSE IF v - lo > hi - v THEN hi
             ELSE IF lo % (2 * (hi - lo)) = 0 THEN lo ELSE hi

\* The single with sign `sign` and magnitude r (r in SMags, or SOver = inf).
SEncode(sign, r) ==
    IF r >= SOver THEN SInf(sign)
    ELSE CHOOSE y \in F32 : y.s = sign /\ IsFinite(y, SEmax) /\ SValue(y) = r

\* The double with sign `sign` and magnitude v.
DEncode(sign, v) ==
    CHOOSE x \in F64 : x.s = sign /\ IsFinite(x, DEmax) /\ DValue(x) = v

\* ---------------------------------------------------------------- casts
\* Mutant of Narrow: the cast flushes single subnormals to zero.
Narrow_ftz(x) ==
    IF IsNaN(x, DEmax)
    THEN LET t == x.m \div Pow2(MantGap)
         IN  [s |-> x.s, e |-> SEmax, m |-> IF t >= SQuiet THEN t ELSE t + SQuiet]
    ELSE IF IsInf(x, DEmax) THEN SInf(x.s)
    ELSE LET y == SEncode(x.s, RoundS(DValue(x)))
         IN  IF y.e = 0 THEN [y EXCEPT !.m = 0] ELSE y

\* `self as f32`: the narrowing cast.  Round to nearest, ties to even;
\* magnitudes beyond the single range become infinity, magnitudes below half
\* the smallest single subnormal become zero; a NaN stays a NaN with its sign,
\* its payload cut to the top mantissa bits and made quiet.
Narrow(x) ==
    IF IsNaN(x, DEmax)
    THEN LET t == x.m \div Pow2(MantGap)
         IN  [s |-> x.s, e |-> SEmax, m |-> IF t >= SQuiet THEN t ELSE t + SQuiet]
    ELSE IF IsInf(x, DEmax) THEN SInf(x.s)
    ELSE SEncode(x.s, RoundS(DValue(x)))

\* Mutant of Widen: the low mantissa bits are filled with ones, not zeros.
Widen_extra(y) ==
    IF IsNaN(y, SEmax)
    THEN [s |-> y.s, e |-> DEmax,
          m |-> y.m * Pow2(MantGap) + (IF y.m >= SQuiet THEN 0 ELSE DQuiet)]
    ELSE IF IsInf(y, SEmax) THEN DInf(y.s)
    ELSE IF y.e = 0 THEN DEncode(y.s, SValue(y))
    ELSE [s |-> y.s, e |-> y.e - SBias + DBias,
          m |-> y.m * Pow2(MantGap) + (Pow2(MantGap) - 1)]

\* `as _` (f32 as f64): the widening cast.  The mantissa is zero-extended and
\* the exponent rebiased; a single subnormal is normalised; a NaN keeps its
\* sign and payload and is made quiet.
Widen(y) ==
    IF IsNaN(y, SEmax)
    THEN [s |-> y.s, e |-> DEmax,
          m |-> y.m * Pow2(MantGap) + (IF y.m >= SQuiet THEN 0 ELSE DQuiet)]
    ELSE IF IsInf(y, SEmax) THEN DInf(y.s)
    ELSE IF y.e = 0 THEN DEncode(y.s, SValue(y))
    ELSE [s |-> y.s, e |-> y.e - SBias + DBias, m |-> y.m * Pow2(MantGap)]

\* The operand slot of a method that has no second operand.
NoF == [s |-> 2, e |-> 0, m |-> 0]

\* ---------------------------------------------------------------- provider
\* crate::f32ext::F32Ext, the single-precision provider.  Its source is not
\* part of f64ext.rs; abs, copysign and rem_euclid follow their documented
\* contract, every other method is an opaque deterministic function of its
\* name, its operands and the provider behaviour `seed`.
f32_abs(y) == [y EXCEPT !.s = 0]

f32_copysign(y, sign) == [y EXCEPT !.s = sign.s]

\* self % other on f32: exact, sign of the dividend.
f32_rem(x, y) ==
    IF IsNaN(x, SEmax) THEN x
    ELSE IF IsNaN(y, SEmax) THEN y
    ELSE IF IsInf(x, SEmax) \/ (IsFinite(y, SEmax) /\ SValue(y) = 0) THEN SNaN(0)
    ELSE IF IsInf(y, SEmax) THEN x
    ELSE SEncode(x.s, SValue(x) % SValue(y))

\* a + b on f32, rounded to nearest even.
f32_add(a, b) ==
    IF IsNaN(a, SEmax) THEN a
    ELSE IF IsNaN(b, SEmax) THEN b
    ELSE IF IsInf(a, SEmax)
         THEN IF IsInf(b, SEmax) /\ b.s # a.s THEN SNaN(0) ELSE a
    ELSE IF IsInf(b, SEmax) THEN b
    ELSE LET va == IF a.s = 1 THEN 0 - SValue(a) ELSE SValue(a)
             vb == IF b.s = 1 THEN 0 - SValue(b) ELSE SValue(b)
             sum == va + vb
         IN  IF sum = 0 THEN [s |-> IF a.s = 1 /\ b.s = 1 THEN 1 ELSE 0, e |-> 0, m |-> 0]
             ELSE IF sum < 0 THEN SEncode(1, RoundS(0 - sum))
             ELSE SEncode(0, RoundS(sum))

\* r < 0.0 on f32.
f32_lt0(r) == ~IsNaN(r, SEmax) /\ r.s = 1 /\ (IsInf(r, SEmax) \/ SValue(r) > 0)

\* The least nonnegative remainder of self (mod other).
f32_rem_euclid(x, y) ==
    LET r == f32_rem(x, y)
    IN  IF f32_lt0(r) THEN f32_add(r, f32_abs(y)) ELSE r

OpNames == << "abs", "asin", "acos", "atan", "atan_norm", "atan2", "atan2_norm",
              "ceil", "cos", "div_euclid", "floor", "hypot", "inv", "invsqrt",
              "rem_euclid", "sin", "sqrt", "tan", "trunc", "round", "fract",
              "copysign", "ln", "exp", "log", "log2", "log10", "powf", "powi" >>

OpNum(name) == CHOOSE i \in 1..Len(OpNames) : OpNames[i] = name

\* Number of single bit patterns, and the pattern <-> float maps.
SCount == 2 * (SEmax + 1) * Pow2(SMant)
SBits(y) == IF y = NoF THEN 0 ELSE (y.s * (SEmax + 1) + y.e) * Pow2(SMant) + y.m
SFromBits(k) ==
    [s |-> k \div ((SEmax + 1) * Pow2(SMant)),
     e |-> (k \div Pow2(SMant)) % (SEmax + 1),
     m |-> k % Pow2(SMant)]

\* An approximation method whose algorithm is not specified: some fixed f32
\* for each (method, operands, exponent), chosen by the behaviour b.
f32_opaque(b, name, x, y, n) ==
    SFromBits((OpNum(name) * 5 + SBits(x) * 3 + SBits(y) * 7 + (n % 11) + b * 9) % SCount)

F32Call(b, name, x, y, n) ==
    CASE name = "abs" -> f32_abs(x)
      [] name = "copysign" -> f32_copysign(x, y)
      [] name = "rem_euclid" -> f32_rem_euclid(x, y)
      [] OTHER -> f32_opaque(b, name, x, y, n)

\* ---------------------------------------------------------------- state
\* Callers (threads); each runs one F64Ext call at a time.
Procs == 1..NumProcs

VARIABLES
    seed,    \* the provider behaviour (fixed for a whole run)
    pc,      \* pc[p]: "idle", "delegated" (the f32 method has returned), "done"
    args,    \* args[p]: the f64 call: method, self, other, n
    callee,  \* callee[p]: the F32Ext call made: method, receiver, argument, n
    calls,   \* calls[p]: number of F32Ext calls made by the current call
    ret,     \* ret[p]: the f32 value the provider returned
    result   \* result[p]: the f64 value returned to the caller

vars == << seed, pc, args, callee, calls, ret, result >>

NoCall == [op |-> "none", self |-> NoF, other |-> NoF, n |-> 0]

Init ==
    /\ seed \in 0..(NumSeeds - 1)
    /\ pc = [p \in Procs |-> "idle"]
    /\ args = [p \in Procs |-> NoCall]
    /\ callee = [p \in Procs |-> NoCall]
    /\ calls = [p \in Procs |-> 0]
    /\ ret = [p \in Procs |-> NoF]
    /\ result = [p \in Procs |-> NoF]

\* ---------------------------------------------------------------- inputs
I32Max == 2147483647
I32Min == (0 - I32Max) - 1

\* Every finite f64, both infinities and the quiet NaN of either sign.
F64In == {x \in F64 : ~IsNaN(x, DEmax) \/ x.m = DQuiet}
I32In == {I32Min, 0 - 3, 0, 1, 10, I32Max}

\* Second operands: in the lowest, the middle (1.0), the highest and the
\* special exponent, the doubles with mantissa 0, 1 or the top bit: both
\* zeros, subnormals below the single range, 1.0 and its successor, numbers
\* beyond the single range, both infinities and both NaNs.
F64Other ==
    {x \in F64In : x.e \in {0, DBias, DEmax - 1, DEmax} /\ x.m \in {0, 1, DQuiet}}

\* 1.0 in the double format.
DOne == [s |-> 0, e |-> DBias, m |-> 0]

\* Inputs of the concurrent specification: the successor of 1.0, which is not
\* representable in the single format, -1.0 and i32::MIN.
ConcSelf == {[DOne EXCEPT !.m = 1]}
ConcOther == {[DOne EXCEPT !.s = 1]}
ConcN == {I32Min}

\* ---------------------------------------------------------------- methods
\* Caller p is not inside a call.
Idle(p) == pc[p] = "idle"

\* One F64Ext method body up to the return of the F32Ext method it calls:
\* caller p invokes `name` on (x, o, n); the body calls F32Ext method `callop`
\* on receiver x32 with argument o32 and exponent n32.
Delegate(p, name, x, o, n, callop, x32, o32, n32) ==
    /\ args' = [args EXCEPT ![p] = [op |-> name, self |-> x, other |-> o, n |-> n]]
    /\ callee' = [callee EXCEPT ![p] = [op |-> callop, self |-> x32, other |-> o32, n |-> n32]]
    /\ calls' = [calls EXCEPT ![p] = @ + 1]
    /\ ret' = [ret EXCEPT ![p] = F32Call(seed, callop, x32, o32, n32)]
    /\ pc' = [pc EXCEPT ![p] = "delegated"]
    /\ UNCHANGED << seed, result >>

\* Mutant of abs: the body calls asin, the next method of the trait.
abs_asin(p, Xs) ==
    Idle(p) /\ \E x \in Xs : Delegate(p, "abs", x, NoF, 0, "asin", Narrow(x), NoF, 0)

abs(p, Xs) ==
    Idle(p) /\ \E x \in Xs : Delegate(p, "abs", x, NoF, 0, "abs", Narrow(x), NoF, 0)

\* Mutant of asin: the domain is checked, and outside [-1, 1] NaN is returned
\* without calling the provider.
asin_checked(p, Xs) ==
    Idle(p) /\ \E x \in Xs :
        IF ~IsNaN(x, DEmax) /\ (IsInf(x, DEmax) \/ DValue(x) > DValue(DOne))
        THEN /\ args' = [args EXCEPT ![p] = [op |-> "asin", self |-> x, other |-> NoF, n |-> 0]]
             /\ ret' = [ret EXCEPT ![p] = SNaN(0)]
             /\ pc' = [pc EXCEPT ![p] = "delegated"]
             /\ UNCHANGED << seed, callee, calls, result >>
        ELSE Delegate(p, "asin", x, NoF, 0, "asin", Narrow(x), NoF, 0)

asin(p, Xs) ==
    Idle(p) /\ \E x \in Xs : Delegate(p, "asin", x, NoF, 0, "asin", Narrow(x), NoF, 0)

acos(p, Xs) ==
    Idle(p) /\ \E x \in Xs : Delegate(p, "acos", x, NoF, 0, "acos", Narrow(x), NoF, 0)

atan(p, Xs) ==
    Idle(p) /\ \E x \in Xs : Delegate(p, "atan", x, NoF, 0, "atan", Narrow(x), NoF, 0)

atan_norm(p, Xs) ==
    Idle(p) /\ \E x \in Xs : Delegate(p, "atan_norm", x, NoF, 0, "atan_norm", Narrow(x), NoF, 0)

\* Mutant of atan2: receiver and argument are swapped.
atan2_swapped(p, Xs, Ys) ==
    Idle(p) /\ \E x \in Xs, y \in Ys :
        Delegate(p, "atan2", x, y, 0, "atan2", Narrow(y), Narrow(x), 0)

atan2(p, Xs, Ys) ==
    Idle(p) /\ \E x \in Xs, y \in Ys :
        Delegate(p, "atan2", x, y, 0, "atan2", Narrow(x), Narrow(y), 0)

atan2_norm(p, Xs, Ys) ==
    Idle(p) /\ \E x \in Xs, y \in Ys :
        Delegate(p, "atan2_norm", x, y, 0, "atan2_norm", Narrow(x), Narrow(y), 0)

ceil(p, Xs) ==
    Idle(p) /\ \E x \in Xs : Delegate(p, "ceil", x, NoF, 0, "ceil", Narrow(x), NoF, 0)

cos(p, Xs) ==
    Idle(p) /\ \E x \in Xs : Delegate(p, "cos", x, NoF, 0, "cos", Narrow(x), NoF, 0)

div_euclid(p, Xs, Ys) ==
    Idle(p) /\ \E x \in Xs, y \in Ys :
        Delegate(p, "div_euclid", x, y, 0, "div_euclid", Narrow(x), Narrow(y), 0)

floor(p, Xs) ==
    Idle(p) /\ \E x \in Xs : Delegate(p, "floor", x, NoF, 0, "floor", Narrow(x), NoF, 0)

hypot(p, Xs, Ys) ==
    Idle(p) /\ \E x \in Xs, y \in Ys :
        Delegate(p, "hypot", x, y, 0, "hypot", Narrow(x), Narrow(y), 0)

inv(p, Xs) ==
    Idle(p) /\ \E x \in Xs : Delegate(p, "inv", x, NoF, 0, "inv", Narrow(x), NoF, 0)

invsqrt(p, Xs) ==
    Idle(p) /\ \E x \in Xs : Delegate(p, "invsqrt", x, NoF, 0, "invsqrt", Narrow(x), NoF, 0)

\* Mutant of rem_euclid: receiver and argument are swapped.
rem_euclid_swapped(p, Xs, Ys) ==
    Idle(p) /\ \E x \in Xs, y \in Ys :
        Delegate(p, "rem_euclid", x, y, 0, "rem_euclid", Narrow(y), Narrow(x), 0)

rem_euclid(p, Xs, Ys) ==
    Idle(p) /\ \E x \in Xs, y \in Ys :
        Delegate(p, "rem_euclid", x, y, 0, "rem_euclid", Narrow(x), Narrow(y), 0)

sin(p, Xs) ==
    Idle(p) /\ \E x \in Xs : Delegate(p, "sin", x, NoF, 0, "sin", Narrow(x), NoF, 0)

sqrt(p, Xs) ==
    Idle(p) /\ \E x \in Xs : Delegate(p, "sqrt", x, NoF, 0, "sqrt", Narrow(x), NoF, 0)

tan(p, Xs) ==
    Idle(p) /\ \E x \in Xs : Delegate(p, "tan", x, NoF, 0, "tan", Narrow(x), NoF, 0)

trunc(p, Xs) ==
    Idle(p) /\ \E x \in Xs : Delegate(p, "trunc", x, NoF, 0, "trunc", Narrow(x), NoF, 0)

round(p, Xs) ==
    Idle(p) /\ \E x \in Xs : Delegate(p, "round", x, NoF, 0, "round", Narrow(x), NoF, 0)

fract(p, Xs) ==
    Idle(p) /\ \E x \in Xs : Delegate(p, "fract", x, NoF, 0, "fract", Narrow(x), NoF, 0)

\* Mutant of copysign: the sign is copied the other way.
copysign_swapped(p, Xs, Ys) ==
    Idle(p) /\ \E x \in Xs, sign \in Ys :
        Delegate(p, "copysign", x, sign, 0, "copysign", Narrow(sign), Narrow(x), 0)

copysign(p, Xs, Ys) ==
    Idle(p) /\ \E x \in Xs, sign \in Ys :
        Delegate(p, "copysign", x, sign, 0, "copysign", Narrow(x), Narrow(sign), 0)

ln(p, Xs) ==
    Idle(p) /\ \E x \in Xs : Delegate(p, "ln", x, NoF, 0, "ln", Narrow(x), NoF, 0)

exp(p, Xs) ==
    Idle(p) /\ \E x \in Xs : Delegate(p, "exp", x, NoF, 0, "exp", Narrow(x), NoF, 0)

log(p, Xs, Ys) ==
    Idle(p) /\ \E x \in Xs, base \in Ys :
        Delegate(p, "log", x, base, 0, "log", Narrow(x), Narrow(base), 0)

log2(p, Xs) ==
    Idle(p) /\ \E x \in Xs : Delegate(p, "log2", x, NoF, 0, "log2", Narrow(x), NoF, 0)

log10(p, Xs) ==
    Idle(p) /\ \E x \in Xs : Delegate(p, "log10", x, NoF, 0, "log10", Narrow(x), NoF, 0)

powf(p, Xs, Ys) ==
    Idle(p) /\ \E x \in Xs, n \in Ys :
        Delegate(p, "powf", x, n, 0, "powf", Narrow(x), Narrow(n), 0)

\* Mutant of powi: the exponent goes through a 16-bit integer.
powi_narrowexp(p, Xs, Ns) ==
    Idle(p) /\ \E x \in Xs, n \in Ns :
        Delegate(p, "powi", x, NoF, n, "powi", Narrow(x), NoF,
                 ((n + 32768) % 65536) - 32768)

powi(p, Xs, Ns) ==
    Idle(p) /\ \E x \in Xs, n \in Ns : Delegate(p, "powi", x, NoF, n, "powi", Narrow(x), NoF, n)

\* Mutant of Return: the provider's value is kept in one slot shared by all
\* callers, and the slot of whichever call is in flight is read.
Return_shared(p) ==
    /\ pc[p] = "delegated"
    /\ result' = [result EXCEPT
                    ![p] = Widen(ret[CHOOSE q \in Procs : pc[q] = "delegated"])]
    /\ pc' = [pc EXCEPT ![p] = "done"]
    /\ UNCHANGED << seed, args, callee, calls, ret >>

\* The trailing `as _` of every method body: the f32 result is widened and
\* returned.
Return(p) ==
    /\ pc[p] = "delegated"
    /\ result' = [result EXCEPT ![p] = Widen(ret[p])]
    /\ pc' = [pc EXCEPT ![p] = "done"]
    /\ UNCHANGED << seed, args, callee, calls, ret >>

\* The caller has consumed the result; the call's frame is gone.
Reset(p) ==
    /\ pc[p] = "done"
    /\ pc' = [pc EXCEPT ![p] = "idle"]
    /\ args' = [args EXCEPT ![p] = NoCall]
    /\ callee' = [callee EXCEPT ![p] = NoCall]
    /\ calls' = [calls EXCEPT ![p] = 0]
    /\ ret' = [ret EXCEPT ![p] = NoF]
    /\ result' = [result EXCEPT ![p] = NoF]
    /\ UNCHANGED seed

\* Caller p starts any method of the trait on operands from Xs, Ys, Ns.
Method(p, Xs, Ys, Ns) ==
    \/ abs(p, Xs) \/ asin(p, Xs) \/ acos(p, Xs) \/ atan(p, Xs) \/ atan_norm(p, Xs)
    \/ atan2(p, Xs, Ys) \/ atan2_norm(p, Xs, Ys) \/ ceil(p, Xs) \/ cos(p, Xs)
    \/ div_euclid(p, Xs, Ys) \/ floor(p, Xs) \/ hypot(p, Xs, Ys) \/ inv(p, Xs)
    \/ invsqrt(p, Xs) \/ rem_euclid(p, Xs, Ys) \/ sin(p, Xs) \/ sqrt(p, Xs)
    \/ tan(p, Xs) \/ trunc(p, Xs) \/ round(p, Xs) \/ fract(p, Xs)
    \/ copysign(p, Xs, Ys) \/ ln(p, Xs) \/ exp(p, Xs) \/ log(p, Xs, Ys)
    \/ log2(p, Xs) \/ log10(p, Xs) \/ powf(p, Xs, Ys) \/ powi(p, Xs, Ns)

\* One caller; every double as the receiver.
Next == Method(1, F64In, F64Other, I32In) \/ Return(1) \/ Reset(1)

Spec == Init /\ [][Next]_vars

\* NumProcs callers interleaved step by step, on the inputs Conc*.
NextConc ==
    \E p \in Procs : Method(p, ConcSelf, ConcOther, ConcN) \/ Return(p) \/ Reset(p)

\* The concurrent runs are checked against one provider behaviour.
InitConc == Init /\ seed = 0

SpecConc == InitConc /\ [][NextConc]_vars

\* ---------------------------------------------------------------- claims
DIsNaN(x) == IsNaN(x, DEmax)
DIsInf(x) == IsInf(x, DEmax)
DIsFinite(x) == IsFinite(x, DEmax)

\* x, a double, holds a value the single format can hold exactly.
IsSingle(x) ==
    IF x.e = DEmax THEN x.m % Pow2(MantGap) = 0 ELSE DValue(x) \in SMags

\* The single y and the double x are the same value: both NaN, the same
\* infinity, or the same signed magnitude.
SameValue(y, x) ==
    /\ IsNaN(y, SEmax) <=> DIsNaN(x)
    /\ IsInf(y, SEmax) <=> DIsInf(x)
    /\ ~IsNaN(y, SEmax) => y.s = x.s
    /\ IsFinite(y, SEmax) => SValue(y) = DValue(x)

\* x with its sign cleared.
DAbs(x) == [x EXCEPT !.s = 0]

\* x rounded to single precision, as a double.
Rounded(x) == Widen(Narrow(x))

\* x >= 0.0 on f64 (false for NaN, true for -0.0).
DGe0(x) == ~DIsNaN(x) /\ (x.s = 0 \/ (DIsFinite(x) /\ DValue(x) = 0))

NarrowOpt(o) == IF o = NoF THEN NoF ELSE Narrow(o)

InCall(p) == pc[p] \in {"delegated", "done"}
Done(p) == pc[p] = "done"

\* C1: every method returns widen(P(narrow(self), narrow(other))) with P the
\* same-named F32Ext method: the receiver stays the receiver, the argument
\* stays the argument, exactly one provider call is made, and nothing else is
\* computed.
C1_Delegation ==
    \A p \in Procs :
        /\ InCall(p) =>
            /\ calls[p] = 1
            /\ callee[p] = [op |-> args[p].op,
                            self |-> Narrow(args[p].self),
                            other |-> NarrowOpt(args[p].other),
                            n |-> args[p].n]
        /\ Done(p) =>
            result[p] = Widen(F32Call(seed, args[p].op, Narrow(args[p].self),
                                      NarrowOpt(args[p].other), args[p].n))

\* A two-operand call has returned whose operands narrow to different singles.
C1_Witness ==
    /\ Done(1)
    /\ args[1].op = "atan2"
    /\ ~IsSingle(args[1].self)
    /\ callee[1].self # callee[1].other
    /\ F32Call(seed, "atan2", callee[1].self, callee[1].other, 0)
         # F32Call(seed, "atan2", callee[1].other, callee[1].self, 0)

\* C2: copysign(x, s) has exactly the magnitude of x and the sign of s, for
\* every finite x and every s.
C2_CopysignExact ==
    \A p \in Procs :
        (Done(p) /\ args[p].op = "copysign" /\ DIsFinite(args[p].self)) =>
            /\ DIsFinite(result[p])
            /\ DValue(result[p]) = DValue(args[p].self)
            /\ result[p].s = args[p].other.s

\* C2 (amended): copysign(x, s) has the sign of s and the magnitude of x
\* rounded to single precision, for every finite x and every s that is not
\* NaN; the magnitude is exactly that of x when x is representable in single
\* precision.
C2_CopysignNarrowed ==
    \A p \in Procs :
        ( /\ Done(p)
          /\ args[p].op = "copysign"
          /\ DIsFinite(args[p].self)
          /\ ~DIsNaN(args[p].other) )
        => /\ result[p].s = args[p].other.s
           /\ DAbs(result[p]) = DAbs(Rounded(args[p].self))
           /\ IsSingle(args[p].self) =>
                  DIsFinite(result[p]) /\ DValue(result[p]) = DValue(args[p].self)

\* copysign has returned for an x that single precision cannot hold and
\* s = -0.0: the result is negative and its magnitude is not that of x.
C2_Witness ==
    /\ Done(1)
    /\ args[1].op = "copysign"
    /\ DIsFinite(args[1].self) /\ args[1].self.s = 0 /\ ~IsSingle(args[1].self)
    /\ args[1].other = [s |-> 1, e |-> 0, m |-> 0]
    /\ result[1].s = 1
    /\ DIsFinite(result[1]) /\ DValue(result[1]) # DValue(args[1].self)

\* C3: abs(x) is x with the sign cleared and the magnitude untouched.
C3_AbsExact ==
    \A p \in Procs :
        (Done(p) /\ args[p].op = "abs") => result[p] = DAbs(args[p].self)

\* C3 (amended): abs(x) is x rounded to single precision with the sign
\* cleared; it is x with the sign cleared when x is a number representable
\* in single precision.
C3_AbsNarrowed ==
    \A p \in Procs :
        (Done(p) /\ args[p].op = "abs") =>
            /\ result[p] = DAbs(Rounded(args[p].self))
            /\ (IsSingle(args[p].self) /\ ~DIsNaN(args[p].self)) =>
                   result[p] = DAbs(args[p].self)

\* abs has returned for a negative x that single precision cannot hold: the
\* result is positive, finite, non-zero and not the magnitude of x.
C3_Witness ==
    /\ Done(1)
    /\ args[1].op = "abs"
    /\ DIsFinite(args[1].self) /\ args[1].self.s = 1 /\ ~IsSingle(args[1].self)
    /\ result[1].s = 0
    /\ DIsFinite(result[1]) /\ DValue(result[1]) > 0
    /\ DValue(result[1]) # DValue(args[1].self)

\* C4: every returned double is exactly representable in single precision:
\* narrowing it and widening it again gives the same double.
C4_ResultIsSingle ==
    \A p \in Procs :
        Done(p) =>
            /\ IsSingle(result[p])
            /\ IF DIsNaN(result[p]) THEN DIsNaN(Rounded(result[p]))
               ELSE Rounded(result[p]) = result[p]

\* A call has returned whose receiver was not representable in single.
C4_Witness ==
    /\ Done(1)
    /\ args[1].op = "sqrt"
    /\ DIsFinite(args[1].self)
    /\ ~IsSingle(args[1].self)
    /\ DIsFinite(result[1])

\* C5: an operand that is a number exactly representable in single precision
\* comes back unchanged from the narrowing and widening casts.
C5_RoundTrip ==
    \A p \in Procs :
        InCall(p) =>
            /\ (IsSingle(args[p].self) /\ ~DIsNaN(args[p].self)) =>
                   Widen(callee[p].self) = args[p].self
            /\ (args[p].other # NoF /\ IsSingle(args[p].other) /\ ~DIsNaN(args[p].other)) =>
                   Widen(callee[p].other) = args[p].other

\* A call is in flight whose receiver is a non-zero single subnormal and whose
\* argument is a representable normal number.
C5_Witness ==
    /\ pc[1] = "delegated"
    /\ args[1].op = "hypot"
    /\ IsSingle(args[1].self) /\ DIsFinite(args[1].self)
    /\ DValue(args[1].self) = Pow2(SubShift)
    /\ IsSingle(args[1].other) /\ DIsFinite(args[1].other)
    /\ DValue(args[1].other) > Pow2(SubShift + SMant)
    /\ Widen(callee[1].self) = args[1].self

C7_Transparent ==
    \A p \in Procs :
        Done(p) =>
            /\ calls[p] = 1
            /\ callee[p].op = args[p].op
            /\ ret[p] = F32Call(seed, callee[p].op, callee[p].self, callee[p].other,
                                callee[p].n)
            /\ SameValue(ret[p], result[p])

\* asin was called outside [-1, 1], the provider answered NaN, and NaN came
\* back.
C7_Witness ==
    /\ Done(1)
    /\ args[1].op = "asin"
    /\ DIsFinite(args[1].self) /\ DValue(args[1].self) > DValue(DOne)
    /\ IsNaN(ret[1], SEmax)
    /\ DIsNaN(result[1])

\* C8: powi hands its i32 exponent to the provider unchanged; only the base
\* is narrowed.
C8_PowiExponent ==
    \A p \in Procs :
        (InCall(p) /\ args[p].op = "powi") =>
            /\ callee[p].op = "powi"
            /\ callee[p].n = args[p].n
            /\ callee[p].self = Narrow(args[p].self)
            /\ callee[p].other = NoF

\* powi is in flight with exponent i32::MIN and a base that narrowing changes.
C8_Witness ==
    /\ InCall(1)
    /\ args[1].op = "powi"
    /\ args[1].n = I32Min
    /\ callee[1].n = I32Min
    /\ ~IsSingle(args[1].self)

\* What the call `a` returns when it runs alone.
Solo(a) == Widen(F32Call(seed, a.op, Narrow(a.self), NarrowOpt(a.other), a.n))

\* C9: under any interleaving of concurrent calls, each call returns what it
\* returns when run alone, and equal calls return equal values.
C9_Pure ==
    \A p, q \in Procs :
        /\ Done(p) => result[p] = Solo(args[p])
        /\ (Done(p) /\ Done(q) /\ args[p] = args[q]) => result[p] = result[q]

\* Two different calls were in flight at once and both have returned, with
\* different values.
C9_Witness ==
    /\ Done(1) /\ Done(2)
    /\ args[1] # args[2]
    /\ result[1] # result[2]

====
